---------------------------- MODULE Spec2Model ----------------------------
(***************************************************************************)
(* A model of the CSS lexer and recursive-descent parser of                *)
(* source/html/css-parse.c.                                                *)
(*                                                                         *)
(* Bytes are integers, C strings are sequences of bytes, the source handed *)
(* to a parse is the memory that starts at the source pointer: the bytes   *)
(* of the string, its terminating NUL, and whatever lies behind it.  The   *)
(* allocation context is a heap, a sequence of objects whose index is      *)
(* their address (0 is NULL).  fz_throw is modelled by the err field of    *)
(* the lexbuf: once it is set no operator changes the lexbuf any more.     *)
(***************************************************************************)
EXTENDS Integers, Sequences, FiniteSets, TLC

\* alloc: the allocation context (the heap); css: the caller's rule chain;
\* last: the caller's last call and its outcome; lexbuf: the lexbuf of a lexer
\* run; pc: where that run is; tokens: the tokens it has returned.
VARIABLES alloc, css, last, lexbuf, pc, tokens

\* A call of one of the functions below: call(f, a) is f applied to a (to the
\* fields of a, for the functions of several arguments).  The functions call
\* each other through it, which keeps what TLC builds of a function for its
\* coverage statistics as small as the function's text.
RECURSIVE call(_, _)

\* ------------------------------------------------------------------ bytes

\* The printable characters of ASCII, from the space (32) to the tilde (126).
Printable ==
  <<
    " ", "!", "\"", "#", "$", "%", "&", "'", "(", ")", "*", "+", ",", "-", ".", "/",
    "0", "1", "2", "3", "4", "5", "6", "7", "8", "9", ":", ";", "<", "=", ">", "?",
    "@", "A", "B", "C", "D", "E", "F", "G", "H", "I", "J", "K", "L", "M", "N", "O",
    "P", "Q", "R", "S", "T", "U", "V", "W", "X", "Y", "Z", "[", "\\", "]", "^", "_",
    "GRAVE", "a", "b", "c", "d", "e", "f", "g", "h", "i", "j", "k", "l", "m", "n", "o",
    "p", "q", "r", "s", "t", "u", "v", "w", "x", "y", "z", "{", "|", "}", "~"
  >>

\* The code of each character, and of the control characters by their names.
Ascii ==
  [x \in {Printable[i] : i \in 1..95} |-> 31 + CHOOSE i \in 1..95 : Printable[i] = x]
  @@ ("TAB" :> 9) @@ ("LF" :> 10) @@ ("FF" :> 12) @@ ("CR" :> 13)

\* The bytes of a text given character by character.
Bytes(t) == [i \in 1..Len(t) |-> Ascii[t[i]]]

\* The character literals of the source.
TAB == 9
LF == 10
FF == 12
CR == 13
SPACE == 32
BANG == 33
DQUOTE == 34
HASH == 35
PERCENT == 37
SQUOTE == 39
LPAREN == 40
RPAREN == 41
STAR == 42
PLUS == 43
COMMA == 44
MINUS == 45
DOT == 46
SLASH == 47
DIGIT_0 == 48
DIGIT_9 == 57
COLON == 58
SEMICOLON == 59
LESS == 60
EQUALS == 61
GREATER == 62
AT == 64
UPPER_A == 65
UPPER_F == 70
UPPER_Z == 90
LBRACKET == 91
BACKSLASH == 92
RBRACKET == 93
UNDERSCORE == 95
LOWER_a == 97
LOWER_f == 102
LOWER_l == 108
LOWER_n == 110
LOWER_r == 114
LOWER_u == 117
LOWER_z == 122
LBRACE == 123
BAR == 124
RBRACE == 125
TILDE == 126

\* ------------------------------------------------------------ token kinds

EOF == -1
CSS_KEYWORD == 256
CSS_STRING == 257
CSS_NUMBER == 258
CSS_LENGTH == 259
CSS_PERCENT == 260
CSS_COLOR == 261
CSS_URI == 262

\* nelem(buf->string)
nelem_string == 1024

\* ------------------------------------------------------------------ errors

NoErr == ""
\* A read outside the memory mapped behind the source: the process dies.
SIGSEGV == "SIGSEGV"

fz_css_error(buf, msg) == [buf EXCEPT !.err = msg, !.errline = buf.line]

\* -------------------------------------------------------------- the lexbuf

\* A function's result: the lexbuf it leaves and the value it returns.
R(buf, v) == [buf |-> buf, v |-> v]

css_lex_next(buf) ==
  IF buf.err # NoErr THEN buf
  ELSE IF buf.s > Len(buf.src) THEN [buf EXCEPT !.err = SIGSEGV, !.errline = buf.line]
  ELSE LET c == buf.src[buf.s]
       IN [buf EXCEPT !.c = c, !.s = @ + 1,
                      !.line = IF c = LF THEN @ + 1 ELSE @]

css_lex_init(ctx, s, file) ==
  css_lex_next([ctx |-> ctx, src |-> s, s |-> 1, file |-> file, line |-> 1,
                lookahead |-> 0, c |-> 0, color |-> 0, string_len |-> 0,
                string |-> <<>>, err |-> NoErr, errline |-> 0])

iswhite(c) ==
  c = SPACE \/ c = TAB \/ c = CR \/ c = LF \/ c = FF

\* isnmstart without the backslash.
isnmstart_noescape(c) ==
  c = UNDERSCORE \/ (c >= LOWER_a /\ c <= LOWER_z) \/
  (c >= UPPER_A /\ c <= UPPER_Z) \/ (c >= 128 /\ c <= 255)

isnmstart(c) ==
  c = BACKSLASH \/ c = UNDERSCORE \/ (c >= LOWER_a /\ c <= LOWER_z) \/
  (c >= UPPER_A /\ c <= UPPER_Z) \/ (c >= 128 /\ c <= 255)

isnmchar(c) ==
  c = BACKSLASH \/ c = UNDERSCORE \/ (c >= LOWER_a /\ c <= LOWER_z) \/
  (c >= UPPER_A /\ c <= UPPER_Z) \/ (c >= DIGIT_0 /\ c <= DIGIT_9) \/
  c = MINUS \/ (c >= 128 /\ c <= 255)

isdigit(c) == c >= DIGIT_0 /\ c <= DIGIT_9

\* buf->string[i] = c, the array indexed from 1.
Store(string, i, c) ==
  IF i <= Len(string) THEN [string EXCEPT ![i] = c] ELSE Append(string, c)

\* css_push_char with the test that leaves no room for a keyword's NUL.
css_push_char_full(buf, c) ==
  IF buf.err # NoErr THEN buf
  ELSE IF buf.string_len >= nelem_string
  THEN fz_css_error(buf, "token too long")
  ELSE [buf EXCEPT !.string = Store(@, buf.string_len + 1, c),
                   !.string_len = @ + 1]

css_push_char(buf, c) ==
  IF buf.err # NoErr THEN buf
  ELSE IF buf.string_len + 1 >= nelem_string
  THEN fz_css_error(buf, "token too long")
  ELSE [buf EXCEPT !.string = Store(@, buf.string_len + 1, c),
                   !.string_len = @ + 1]

css_lex_accept(buf, t) ==
  IF buf.err = NoErr /\ buf.c = t THEN R(css_lex_next(buf), TRUE) ELSE R(buf, FALSE)

css_lex_expect(buf, t) ==
  IF buf.err # NoErr THEN buf
  ELSE IF buf.c = t THEN css_lex_next(buf)
  ELSE fz_css_error(buf, "unexpected character")

\* ishex: the digit's value, or -1 when c is no hex digit.
ishex(c) ==
  IF c >= DIGIT_0 /\ c <= DIGIT_9 THEN c - DIGIT_0
  ELSE IF c >= UPPER_A /\ c <= UPPER_F THEN c - UPPER_A + 10
  ELSE IF c >= LOWER_a /\ c <= LOWER_f THEN c - LOWER_a + 10
  ELSE -1

css_lex_accept_hex(buf) ==
  IF buf.err = NoErr /\ ishex(buf.c) >= 0
  THEN R(css_lex_next(buf), ishex(buf.c)) ELSE R(buf, -1)


\* ------------------------------------------------------------------ lexer

RECURSIVE css_lex_digits(_)
\* while (buf->c >= '0' && buf->c <= '9') { push; next }
css_lex_digits(buf) ==
  IF buf.err = NoErr /\ isdigit(buf.c)
  THEN css_lex_digits(css_lex_next(css_push_char(buf, buf.c)))
  ELSE buf

\* One iteration of the loop of css_lex_keyword.
css_lex_keyword_step(buf) == css_lex_next(css_push_char(buf, buf.c))

RECURSIVE css_lex_keyword(_)
css_lex_keyword(buf) ==
  IF buf.err = NoErr /\ isnmchar(buf.c)
  THEN css_lex_keyword(css_lex_keyword_step(buf))
  ELSE R(css_push_char(buf, 0), CSS_KEYWORD)

css_lex_number(buf) ==
  LET b1 == css_lex_digits(buf)
      dot == css_lex_accept(b1, DOT)
      b2 == IF dot.v THEN css_lex_digits(css_push_char(dot.buf, DOT)) ELSE dot.buf
      pct == css_lex_accept(b2, PERCENT)
  IN IF pct.v
     THEN R(css_push_char(css_push_char(pct.buf, PERCENT), 0), CSS_PERCENT)
     ELSE IF isnmstart(b2.c)
     THEN LET u == call("css_lex_keyword", css_lex_next(css_push_char(b2, b2.c)))
          IN R(u.buf, CSS_LENGTH)
     ELSE R(css_push_char(b2, 0), CSS_NUMBER)

\* One iteration of the loop of css_lex_string.
css_lex_string_step(buf) ==
  LET bs == css_lex_accept(buf, BACKSLASH)
      b == bs.buf
  IN IF bs.v
     THEN IF b.c = LOWER_n THEN css_push_char(css_lex_next(b), LF)
          ELSE IF b.c = LOWER_r THEN css_push_char(css_lex_next(b), CR)
          ELSE IF b.c = LOWER_f THEN css_push_char(css_lex_next(b), FF)
          ELSE IF b.c = FF THEN css_lex_next(b)
          ELSE IF b.c = LF THEN css_lex_next(b)
          ELSE IF b.c = CR THEN css_lex_accept(css_lex_next(b), LF).buf
          ELSE css_lex_next(css_push_char(b, b.c))
     ELSE css_lex_next(css_push_char(buf, buf.c))

RECURSIVE css_lex_string(_, _)
css_lex_string(buf, q) ==
  IF buf.err = NoErr /\ buf.c # 0 /\ buf.c # q
  THEN css_lex_string(css_lex_string_step(buf), q)
  ELSE R(css_push_char(css_lex_expect(buf, q), 0), CSS_STRING)

RECURSIVE css_lex_white(_)
\* while (iswhite(buf->c)) css_lex_next(buf);
css_lex_white(buf) ==
  IF buf.err = NoErr /\ iswhite(buf.c) THEN css_lex_white(css_lex_next(buf)) ELSE buf

RECURSIVE css_lex_stars(_)
\* while (buf->c == '*') css_lex_next(buf);
css_lex_stars(buf) ==
  IF buf.err = NoErr /\ buf.c = STAR THEN css_lex_stars(css_lex_next(buf)) ELSE buf

\* One iteration of the comment loop: v is TRUE when the comment was closed
\* (goto restart).
css_lex_comment_step(buf) ==
  LET star == css_lex_accept(buf, STAR)
      b1 == css_lex_stars(star.buf)
      slash == css_lex_accept(b1, SLASH)
  IN IF star.v
     THEN IF slash.v THEN R(slash.buf, TRUE) ELSE R(css_lex_next(b1), FALSE)
     ELSE R(css_lex_next(buf), FALSE)

RECURSIVE css_lex_comment(_)
\* The body of a comment, after its opening: v is TRUE when it was closed.
css_lex_comment(buf) ==
  IF buf.err # NoErr THEN R(buf, FALSE)
  ELSE IF buf.c = 0 THEN R(fz_css_error(buf, "unterminated comment"), FALSE)
  ELSE LET it == css_lex_comment_step(buf)
       IN IF it.v THEN it ELSE css_lex_comment(it.buf)

\* x << n
Shl(x, n) == x * (2 ^ n)

RECURSIVE BitOr(_, _)
\* x | y, of non-negative integers
BitOr(x, y) ==
  IF x = 0 THEN y
  ELSE IF y = 0 THEN x
  ELSE 2 * BitOr(x \div 2, y \div 2) + (IF x % 2 = 1 \/ y % 2 = 1 THEN 1 ELSE 0)

HexDigit(d) == IF d < 10 THEN DIGIT_0 + d ELSE LOWER_a + (d - 10)

RECURSIVE HexDigits(_)
HexDigits(n) ==
  IF n < 16 THEN <<HexDigit(n)>> ELSE Append(HexDigits(n \div 16), HexDigit(n % 16))

RECURSIVE ZeroPad(_, _)
ZeroPad(digits, width) ==
  IF Len(digits) >= width THEN digits ELSE ZeroPad(<<DIGIT_0>> \o digits, width)

RECURSIVE StoreAll(_, _, _)
\* The bytes of t written to string from index i on.
StoreAll(string, i, t) ==
  IF t = <<>> THEN string ELSE StoreAll(Store(string, i, Head(t)), i + 1, Tail(t))

\* sprintf(buf->string, "%06x", buf->color)
sprintf_06x(buf) ==
  [buf EXCEPT !.string = StoreAll(@, 1, Append(ZeroPad(HexDigits(buf.color), 6), 0))]

\* css_lex_color_def with the three digits packed and not doubled up.
css_lex_color_packed(buf, a, b, c) ==
  LET d == css_lex_accept_hex(buf)
      e == css_lex_accept_hex(d.buf)
      f == css_lex_accept_hex(e.buf)
  IN IF d.v >= 0
     THEN IF e.v < 0 THEN R(fz_css_error(e.buf, "invalid color"), CSS_COLOR)
          ELSE IF f.v < 0 THEN R(fz_css_error(f.buf, "invalid color"), CSS_COLOR)
          ELSE R(sprintf_06x([f.buf EXCEPT !.color =
                   BitOr(BitOr(BitOr(BitOr(BitOr(Shl(a, 20), Shl(b, 16)),
                         Shl(c, 12)), Shl(d.v, 8)), Shl(e.v, 4)), f.v)]), CSS_COLOR)
     ELSE R(sprintf_06x([d.buf EXCEPT !.color =
              BitOr(BitOr(Shl(a, 8), Shl(b, 4)), c)]), CSS_COLOR)

\* The '#' case of css_lex from its fourth css_lex_accept_hex on: a, b and c
\* are the digits read so far.
css_lex_color_def(buf, a, b, c) ==
  LET d == css_lex_accept_hex(buf)
      e == css_lex_accept_hex(d.buf)
      f == css_lex_accept_hex(e.buf)
  IN IF d.v >= 0
     THEN IF e.v < 0 THEN R(fz_css_error(e.buf, "invalid color"), CSS_COLOR)
          ELSE IF f.v < 0 THEN R(fz_css_error(f.buf, "invalid color"), CSS_COLOR)
          ELSE R(sprintf_06x([f.buf EXCEPT !.color =
                   BitOr(BitOr(BitOr(BitOr(BitOr(Shl(a, 20), Shl(b, 16)),
                         Shl(c, 12)), Shl(d.v, 8)), Shl(e.v, 4)), f.v)]), CSS_COLOR)
     ELSE R(sprintf_06x([d.buf EXCEPT !.color =
              BitOr(BitOr(Shl(a, 20), Shl(b, 12)), Shl(c, 4))]), CSS_COLOR)

\* The '#' case of css_lex, after the '#'.
css_lex_color(buf) ==
  LET a == css_lex_accept_hex(buf)
      b == css_lex_accept_hex(a.buf)
      c == css_lex_accept_hex(b.buf)
  IN IF a.v < 0 THEN R(fz_css_error(a.buf, "invalid color"), CSS_COLOR)
     ELSE IF b.v < 0 THEN R(fz_css_error(b.buf, "invalid color"), CSS_COLOR)
     ELSE IF c.v < 0 THEN R(fz_css_error(c.buf, "invalid color"), CSS_COLOR)
     ELSE css_lex_color_def(c.buf, a.v, b.v, c.v)

\* The 'u' case of css_lex, after the 'u'.
css_lex_uri(buf) ==
  LET r == css_lex_accept(buf, LOWER_r)
      l == css_lex_accept(r.buf, LOWER_l)
      p == css_lex_accept(l.buf, LPAREN)
  IN IF r.v
     THEN IF l.v
          THEN IF p.v
               THEN R(css_lex_expect(p.buf, RPAREN), CSS_URI)
               ELSE call("css_lex_keyword", css_push_char(css_push_char(css_push_char(
                      p.buf, LOWER_u), LOWER_r), LOWER_l))
          ELSE call("css_lex_keyword", css_push_char(css_push_char(l.buf, LOWER_u), LOWER_r))
     ELSE call("css_lex_keyword", css_push_char(r.buf, LOWER_u))

\* The nmstart case of css_lex, up to its call of css_lex_keyword.
css_lex_nmstart(buf) == css_lex_next(css_push_char(buf, buf.c))

RECURSIVE css_lex_loop(_)
\* The while loop of css_lex, entered at its condition ("continue") or at
\* restart: with c = 0 there is no white space to skip and both leave by EOF.
css_lex_loop(buf) ==
  LET b == css_lex_white(buf)
      c == b.c
      n == css_lex_next(b)
  IN IF b.err # NoErr THEN R(b, EOF)
     ELSE IF c = 0 THEN R(b, EOF)
     ELSE IF c = SLASH
     THEN IF n.err = NoErr /\ n.c = STAR
          THEN LET body == call("css_lex_comment", css_lex_next(n))
               IN IF body.v THEN css_lex_loop(body.buf) ELSE R(body.buf, EOF)
          ELSE R(n, SLASH)
     ELSE IF c = LESS
     THEN IF n.err = NoErr /\ n.c = BANG
          THEN css_lex_loop(css_lex_expect(css_lex_expect(css_lex_next(n), MINUS), MINUS))
          ELSE R(n, LESS)
     ELSE IF c = MINUS
     THEN IF n.err = NoErr /\ n.c = MINUS
          THEN css_lex_loop(css_lex_expect(css_lex_next(n), GREATER))
          ELSE IF isdigit(n.c)
          THEN call("css_lex_number", css_push_char(n, MINUS))
          ELSE IF isnmstart(n.c)
          THEN call("css_lex_keyword", css_lex_next(css_push_char(css_push_char(n, MINUS), n.c)))
          ELSE R(n, MINUS)
     ELSE IF c = PLUS
     THEN IF isdigit(n.c) THEN call("css_lex_number", n) ELSE R(n, PLUS)
     ELSE IF c = DOT
     THEN IF isdigit(n.c) THEN call("css_lex_number", css_push_char(n, DOT)) ELSE R(n, DOT)
     ELSE IF c = HASH THEN call("css_lex_color", n)
     ELSE IF c = DQUOTE THEN css_lex_string(n, DQUOTE)
     ELSE IF c = SQUOTE THEN css_lex_string(n, SQUOTE)
     ELSE IF isdigit(c) THEN call("css_lex_number", b)
     ELSE IF c = LOWER_u THEN call("css_lex_uri", n)
     ELSE IF isnmstart(c) THEN call("css_lex_keyword", css_lex_nmstart(b))
     ELSE R(n, c)

css_lex(buf) == css_lex_loop([buf EXCEPT !.string_len = 0])

\* ------------------------------------------------------------ token stream

next(buf) ==
  IF buf.err # NoErr THEN buf
  ELSE LET t == call("css_lex", buf)
       IN IF t.buf.err # NoErr THEN t.buf ELSE [t.buf EXCEPT !.lookahead = t.v]

accept(buf, t) ==
  IF buf.err = NoErr /\ buf.lookahead = t THEN R(next(buf), TRUE) ELSE R(buf, FALSE)

expect(buf, t) ==
  IF buf.err # NoErr THEN buf
  ELSE IF buf.lookahead = t THEN next(buf)
  ELSE fz_css_error(buf, "unexpected token")

iscond(t) == t = COLON \/ t = DOT \/ t = HASH \/ t = LBRACKET

\* ------------------------------------------------------ allocation context

NULL == 0
\* A const char * argument that is NULL (no byte array holds -1).
NullStr == <<-1>>

\* The number of bytes before the first NUL of the array.
strlen(string) ==
  IF \A i \in 1..Len(string) : string[i] # 0 THEN Len(string)
  ELSE (CHOOSE i \in 1..Len(string) :
          string[i] = 0 /\ \A j \in 1..(i - 1) : string[j] # 0) - 1

\* The C string that starts the array.
CStr(string) == SubSeq(string, 1, strlen(string))

\* fz_malloc: the new object's address is the value returned.
fz_malloc(buf, obj) ==
  IF buf.err # NoErr THEN R(buf, NULL)
  ELSE R([buf EXCEPT !.ctx = Append(@, obj)], Len(buf.ctx) + 1)

fz_strdup(buf, string) == fz_malloc(buf, [t |-> "str", bytes |-> CStr(string)])

\* p->field = v
SetField(buf, p, field, v) ==
  IF buf.err # NoErr THEN buf ELSE [buf EXCEPT !.ctx[p][field] = v]

\* p->field = fz_strdup(ctx, string)
SetDup(buf, p, field, string) ==
  LET s == fz_strdup(buf, string) IN SetField(s.buf, p, field, s.v)

\* p->field = string ? fz_strdup(ctx, string) : NULL, the field being NULL before
SetStr(buf, p, field, string) ==
  IF string = NullStr THEN buf ELSE SetDup(buf, p, field, string)

fz_new_css_rule(buf, selector, declaration) ==
  fz_malloc(buf, [t |-> "rule", selector |-> selector, declaration |-> declaration,
                  garbage |-> NULL, next |-> NULL])

fz_new_css_selector(buf, name) ==
  LET sel == fz_malloc(buf, [t |-> "selector", name |-> NULL, combine |-> 0,
                             cond |-> NULL, left |-> NULL, right |-> NULL,
                             next |-> NULL])
  IN R(SetStr(sel.buf, sel.v, "name", name), sel.v)

fz_new_css_condition(buf, type, key, val) ==
  LET cond == fz_malloc(buf, [t |-> "condition", type |-> type, key |-> NULL,
                              val |-> NULL, next |-> NULL])
  IN R(SetStr(SetStr(cond.buf, cond.v, "key", key), cond.v, "val", val), cond.v)

\* fz_new_css_property that does not copy the name.
fz_new_css_property_noname(buf, name, value, spec) ==
  fz_malloc(buf, [t |-> "property", name |-> NULL, value |-> value,
                  spec |-> spec, next |-> NULL])

fz_new_css_property(buf, name, value, spec) ==
  LET prop == fz_malloc(buf, [t |-> "property", name |-> NULL, value |-> value,
                              spec |-> spec, next |-> NULL])
  IN R(SetDup(prop.buf, prop.v, "name", name), prop.v)

fz_new_css_value(buf, type, data) ==
  LET val == fz_malloc(buf, [t |-> "value", type |-> type, data |-> NULL,
                             args |-> NULL, next |-> NULL])
  IN R(SetDup(val.buf, val.v, "data", data), val.v)

\* ------------------------------------------------------------------- drop

\* The heap a drop works on: ctx is the heap, err what went wrong with it.
Heap(ctx) == [ctx |-> ctx, err |-> NoErr]

\* An object that was freed.
Freed == [t |-> "freed"]

\* fz_free(ctx, p): free(NULL) does nothing, a second free of p is an error.
fz_free(h, p) ==
  IF h.err # NoErr \/ p = NULL THEN h
  ELSE IF h.ctx[p] = Freed THEN [h EXCEPT !.err = "double free"]
  ELSE [h EXCEPT !.ctx[p] = Freed]

\* The object at p is read: an error when it was freed.
Use(h, p) ==
  IF h.err = NoErr /\ p # NULL /\ h.ctx[p] = Freed THEN [h EXCEPT !.err = "use after free"] ELSE h

RECURSIVE fz_drop_css_value_flat(_, _)
\* fz_drop_css_value that leaves the args of a value alone.
fz_drop_css_value_flat(h, val) ==
  IF Use(h, val).err # NoErr \/ val = NULL THEN Use(h, val)
  ELSE fz_drop_css_value_flat(fz_free(fz_free(h, h.ctx[val].data), val), h.ctx[val].next)

RECURSIVE fz_drop_css_value(_, _)
fz_drop_css_value(h, val) ==
  IF Use(h, val).err # NoErr \/ val = NULL THEN Use(h, val)
  ELSE fz_drop_css_value(
         fz_free(fz_free(fz_drop_css_value(h, h.ctx[val].args), h.ctx[val].data), val),
         h.ctx[val].next)

RECURSIVE fz_drop_css_condition(_, _)
fz_drop_css_condition(h, cond) ==
  IF Use(h, cond).err # NoErr \/ cond = NULL THEN Use(h, cond)
  ELSE fz_drop_css_condition(
         fz_free(fz_free(fz_free(h, h.ctx[cond].key), h.ctx[cond].val), cond),
         h.ctx[cond].next)

RECURSIVE fz_drop_css_selector(_, _)
fz_drop_css_selector(h, sel) ==
  IF Use(h, sel).err # NoErr \/ sel = NULL THEN Use(h, sel)
  ELSE fz_drop_css_selector(
         fz_free(fz_drop_css_selector(
                   fz_drop_css_selector(
                     fz_drop_css_condition(fz_free(h, h.ctx[sel].name), h.ctx[sel].cond),
                     h.ctx[sel].left),
                   h.ctx[sel].right), sel),
         h.ctx[sel].next)

RECURSIVE fz_drop_css_property(_, _)
fz_drop_css_property(h, prop) ==
  IF Use(h, prop).err # NoErr \/ prop = NULL THEN Use(h, prop)
  ELSE fz_drop_css_property(
         fz_free(fz_drop_css_value(fz_free(h, h.ctx[prop].name), h.ctx[prop].value), prop),
         h.ctx[prop].next)

RECURSIVE fz_drop_css(_, _)
fz_drop_css(h, rule) ==
  IF Use(h, rule).err # NoErr \/ rule = NULL THEN Use(h, rule)
  ELSE fz_drop_css(
         fz_free(fz_drop_css_property(
                   fz_drop_css_property(
                     fz_drop_css_selector(h, h.ctx[rule].selector),
                     h.ctx[rule].declaration),
                   h.ctx[rule].garbage), rule),
         h.ctx[rule].next)

\* ----------------------------------------------------------------- parser

RECURSIVE parse_value(_)
RECURSIVE parse_value_list(_)
RECURSIVE parse_value_list_loop(_, _, _)

ValueListEnd(t) ==
  t = RBRACE \/ t = SEMICOLON \/ t = BANG \/ t = RPAREN \/ t = EOF

parse_value(buf) ==
  IF buf.err # NoErr THEN R(buf, NULL)
  ELSE IF buf.lookahead = CSS_KEYWORD
  THEN LET v == fz_new_css_value(buf, CSS_KEYWORD, buf.string)
           par == accept(next(v.buf), LPAREN)
           args == call("parse_value_list", SetField(par.buf, v.v, "type", LPAREN))
       IN IF par.v
          THEN R(expect(SetField(args.buf, v.v, "args", args.v), RPAREN), v.v)
          ELSE R(par.buf, v.v)
  ELSE IF buf.lookahead \in {CSS_NUMBER, CSS_LENGTH, CSS_PERCENT, CSS_STRING,
                             CSS_COLOR, CSS_URI}
  THEN LET v == fz_new_css_value(buf, buf.lookahead, buf.string)
       IN R(next(v.buf), v.v)
  ELSE IF buf.lookahead = COMMA
  THEN fz_new_css_value(next(buf), COMMA, <<COMMA, 0>>)
  ELSE IF buf.lookahead = SLASH
  THEN fz_new_css_value(next(buf), SLASH, <<SLASH, 0>>)
  ELSE R(fz_css_error(buf, "expected value"), NULL)

\* The while loop of parse_value_list.
parse_value_list_loop(buf, head, tail) ==
  IF buf.err = NoErr /\ ~ValueListEnd(buf.lookahead)
  THEN LET v == call("parse_value", buf)
       IN IF head = NULL
          THEN parse_value_list_loop(v.buf, v.v, v.v)
          ELSE parse_value_list_loop(SetField(v.buf, tail, "next", v.v), head, v.v)
  ELSE R(buf, head)

parse_value_list(buf) == parse_value_list_loop(buf, NULL, NULL)

parse_declaration(buf) ==
  IF buf.err # NoErr THEN R(buf, NULL)
  ELSE IF buf.lookahead # CSS_KEYWORD
  THEN R(fz_css_error(buf, "expected keyword in property"), NULL)
  ELSE LET p == fz_new_css_property(buf, buf.string, NULL, 0)
           vl == call("parse_value_list", expect(next(p.buf), COLON))
           bang == accept(SetField(vl.buf, p.v, "value", vl.v), BANG)
       IN IF bang.v THEN R(expect(bang.buf, CSS_KEYWORD), p.v) ELSE R(bang.buf, p.v)

RECURSIVE parse_declaration_list_loop(_, _, _)
\* while (accept(buf, ';')) ...
parse_declaration_list_loop(buf, head, tail) ==
  LET semi == accept(buf, SEMICOLON)
      b == semi.buf
      d == call("parse_declaration", b)
  IN IF ~semi.v THEN R(b, head)
     ELSE IF b.err = NoErr /\ b.lookahead # RBRACE /\ b.lookahead # SEMICOLON /\
             b.lookahead # EOF
     THEN parse_declaration_list_loop(SetField(d.buf, tail, "next", d.v), head, d.v)
     ELSE parse_declaration_list_loop(b, head, tail)

parse_declaration_list(buf) ==
  IF buf.err # NoErr THEN R(buf, NULL)
  ELSE IF buf.lookahead = RBRACE \/ buf.lookahead = EOF THEN R(buf, NULL)
  ELSE LET d == call("parse_declaration", buf)
       IN parse_declaration_list_loop(d.buf, d.v, d.v)

parse_attrib_value(buf) ==
  IF buf.err # NoErr THEN R(buf, NULL)
  ELSE IF buf.lookahead = CSS_KEYWORD \/ buf.lookahead = CSS_STRING
  THEN LET s == fz_strdup(buf, buf.string)
       IN R(next(s.buf), s.v)
  ELSE R(fz_css_error(buf, "expected attribute value"), NULL)

\* c->type = op; c->val = parse_attrib_value(buf); and the expect(buf, ']')
\* that follows.
parse_condition_attrib_val(buf, c, op) ==
  LET val == call("parse_attrib_value", SetField(buf, c, "type", op))
  IN R(expect(SetField(val.buf, c, "val", val.v), RBRACKET), c)

\* The '[' case of parse_condition from its accept(buf, '=') on.
parse_condition_attrib_op(buf, c) ==
  IF accept(buf, EQUALS).v
  THEN parse_condition_attrib_val(accept(buf, EQUALS).buf, c, EQUALS)
  ELSE IF accept(buf, BAR).v
  THEN parse_condition_attrib_val(expect(accept(buf, BAR).buf, EQUALS), c, BAR)
  ELSE IF accept(buf, TILDE).v
  THEN parse_condition_attrib_val(expect(accept(buf, TILDE).buf, EQUALS), c, TILDE)
  ELSE R(expect(buf, RBRACKET), c)

\* The '[' case of parse_condition, after the '['.
parse_condition_attrib(buf) ==
  LET c == fz_new_css_condition(buf, LBRACKET, buf.string, NullStr)
  IN IF buf.err # NoErr THEN R(buf, NULL)
     ELSE IF buf.lookahead # CSS_KEYWORD
     THEN R(fz_css_error(buf, "expected keyword after '['"), NULL)
     ELSE parse_condition_attrib_op(next(c.buf), c.v)

\* The ':', '.' and '#' cases of parse_condition, after that token.
parse_condition_named(buf, type, key, msg) ==
  IF buf.err # NoErr THEN R(buf, NULL)
  ELSE IF buf.lookahead # CSS_KEYWORD THEN R(fz_css_error(buf, msg), NULL)
  ELSE LET c == fz_new_css_condition(buf, type, key, buf.string)
       IN R(next(c.buf), c.v)

parse_condition(buf) ==
  IF buf.err # NoErr THEN R(buf, NULL)
  ELSE IF accept(buf, COLON).v
  THEN parse_condition_named(accept(buf, COLON).buf, COLON,
         Bytes(<<"p", "s", "e", "u", "d", "o">>) \o <<0>>, "expected keyword after ':'")
  ELSE IF accept(buf, DOT).v
  THEN parse_condition_named(accept(buf, DOT).buf, DOT,
         Bytes(<<"c", "l", "a", "s", "s">>) \o <<0>>, "expected keyword after '.'")
  ELSE IF accept(buf, HASH).v
  THEN parse_condition_named(accept(buf, HASH).buf, HASH,
         Bytes(<<"i", "d">>) \o <<0>>, "expected keyword after '#'")
  ELSE IF accept(buf, LBRACKET).v
  THEN call("parse_condition_attrib", accept(buf, LBRACKET).buf)
  ELSE R(fz_css_error(buf, "expected condition"), NULL)

RECURSIVE parse_condition_list_loop(_, _, _)
\* while (iscond(buf->lookahead)) tail = tail->next = parse_condition(buf);
parse_condition_list_loop(buf, head, tail) ==
  IF buf.err = NoErr /\ iscond(buf.lookahead)
  THEN LET c == call("parse_condition", buf)
       IN parse_condition_list_loop(SetField(c.buf, tail, "next", c.v), head, c.v)
  ELSE R(buf, head)

parse_condition_list(buf) ==
  LET c == call("parse_condition", buf)
  IN parse_condition_list_loop(c.buf, c.v, c.v)

\* s->cond = parse_condition_list(buf), when the lookahead starts a condition.
parse_simple_selector_cond(buf, s) ==
  LET cl == call("parse_condition_list", buf)
  IN IF buf.err = NoErr /\ iscond(buf.lookahead)
     THEN R(SetField(cl.buf, s, "cond", cl.v), s)
     ELSE R(buf, s)

parse_simple_selector(buf) ==
  LET star == accept(buf, STAR)
      s1 == fz_new_css_selector(star.buf, NullStr)
      s2 == fz_new_css_selector(buf, buf.string)
      s3 == fz_new_css_selector(buf, NullStr)
  IN IF buf.err # NoErr THEN R(buf, NULL)
     ELSE IF star.v THEN parse_simple_selector_cond(s1.buf, s1.v)
     ELSE IF buf.lookahead = CSS_KEYWORD
     THEN parse_simple_selector_cond(next(s2.buf), s2.v)
     ELSE IF iscond(buf.lookahead)
     THEN LET cl == call("parse_condition_list", s3.buf)
          IN R(SetField(cl.buf, s3.v, "cond", cl.v), s3.v)
     ELSE R(fz_css_error(buf, "expected selector"), NULL)

\* CombineSelector that does not set s->left.
CombineSelector_noleft(buf, combine, a, b) ==
  LET s == fz_new_css_selector(buf, NullStr)
  IN R(SetField(SetField(s.buf, s.v, "combine", combine), s.v, "right", b), s.v)

\* s = fz_new_css_selector(NULL); s->combine = combine; s->left = a; s->right = b
CombineSelector(buf, combine, a, b) ==
  LET s == fz_new_css_selector(buf, NullStr)
  IN R(SetField(SetField(SetField(s.buf, s.v, "combine", combine),
                         s.v, "left", a), s.v, "right", b), s.v)

RECURSIVE parse_adjacent_selector(_)
parse_adjacent_selector(buf) ==
  LET a == call("parse_simple_selector", buf)
      plus == accept(a.buf, PLUS)
      b == parse_adjacent_selector(plus.buf)
  IN IF plus.v THEN CombineSelector(b.buf, PLUS, a.v, b.v) ELSE R(plus.buf, a.v)

\* parse_child_selector that parses its right operand as a descendant selector.
parse_child_selector_wide(buf) ==
  LET a == call("parse_adjacent_selector", buf)
      gt == accept(a.buf, GREATER)
      b == call("parse_descendant_selector", gt.buf)
  IN IF gt.v THEN CombineSelector(b.buf, GREATER, a.v, b.v) ELSE R(gt.buf, a.v)

RECURSIVE parse_child_selector(_)
parse_child_selector(buf) ==
  LET a == call("parse_adjacent_selector", buf)
      gt == accept(a.buf, GREATER)
      b == parse_child_selector(gt.buf)
  IN IF gt.v THEN CombineSelector(b.buf, GREATER, a.v, b.v) ELSE R(gt.buf, a.v)

RECURSIVE parse_descendant_selector(_)
parse_descendant_selector(buf) ==
  LET a == call("parse_child_selector", buf)
      b == parse_descendant_selector(a.buf)
  IN IF a.buf.err = NoErr /\ a.buf.lookahead # COMMA /\ a.buf.lookahead # LBRACE /\
        a.buf.lookahead # EOF
     THEN CombineSelector(b.buf, SPACE, a.v, b.v)
     ELSE R(a.buf, a.v)

RECURSIVE parse_selector_list_loop(_, _, _)
\* while (accept(buf, ',')) tail = tail->next = parse_descendant_selector(buf);
parse_selector_list_loop(buf, head, tail) ==
  LET comma == accept(buf, COMMA)
      s == call("parse_descendant_selector", comma.buf)
  IN IF comma.v
     THEN parse_selector_list_loop(SetField(s.buf, tail, "next", s.v), head, s.v)
     ELSE R(comma.buf, head)

parse_selector_list(buf) ==
  LET s == call("parse_descendant_selector", buf)
  IN parse_selector_list_loop(s.buf, s.v, s.v)

parse_rule(buf) ==
  LET s == call("parse_selector_list", buf)
      p == call("parse_declaration_list", expect(s.buf, LBRACE))
  IN fz_new_css_rule(expect(p.buf, RBRACE), s.v, p.v)

RECURSIVE parse_at_rule_block_flat(_, _)
\* parse_at_rule_block that does not count the braces opened inside the block.
parse_at_rule_block_flat(buf, depth) ==
  IF buf.err = NoErr /\ buf.lookahead # EOF /\ depth > 0
  THEN IF buf.lookahead = RBRACE THEN parse_at_rule_block_flat(next(buf), depth - 1)
       ELSE parse_at_rule_block_flat(next(buf), depth)
  ELSE buf

RECURSIVE parse_at_rule_block(_, _)
\* while (buf->lookahead != EOF && depth > 0) ...
parse_at_rule_block(buf, depth) ==
  IF buf.err = NoErr /\ buf.lookahead # EOF /\ depth > 0
  THEN IF buf.lookahead = LBRACE THEN parse_at_rule_block(next(buf), depth + 1)
       ELSE IF buf.lookahead = RBRACE THEN parse_at_rule_block(next(buf), depth - 1)
       ELSE parse_at_rule_block(next(buf), depth)
  ELSE buf

RECURSIVE parse_at_rule_loop(_)
\* while (buf->lookahead != EOF) ...
parse_at_rule_loop(buf) ==
  IF buf.err = NoErr /\ buf.lookahead # EOF
  THEN IF buf.lookahead = SEMICOLON THEN next(buf)
       ELSE IF buf.lookahead = LBRACE THEN parse_at_rule_block(next(buf), 1)
       ELSE parse_at_rule_loop(next(buf))
  ELSE buf

parse_at_rule(buf) == parse_at_rule_loop(expect(buf, CSS_KEYWORD))

\* LastRule that does not walk the chain.
LastRule_head(heap, tail) == tail

RECURSIVE LastRule(_, _)
\* while (tail->next) tail = tail->next;
LastRule(heap, tail) ==
  IF heap[tail].next = NULL THEN tail ELSE LastRule(heap, heap[tail].next)

RECURSIVE parse_stylesheet_loop(_, _, _)
\* The while loop of parse_stylesheet.  nextp is the rule whose next field
\* *nextp is, or NULL when nextp = &tail, the local variable.
parse_stylesheet_loop(buf, nextp, tail) ==
  IF buf.err = NoErr /\ buf.lookahead # EOF
  THEN LET at == accept(buf, AT)
           rule == call("parse_rule", buf)
       IN IF at.v THEN parse_stylesheet_loop(call("parse_at_rule", at.buf), nextp, tail)
          ELSE IF nextp = NULL
          THEN parse_stylesheet_loop(rule.buf, rule.v, rule.v)
          ELSE parse_stylesheet_loop(SetField(rule.buf, nextp, "next", rule.v),
                                     rule.v, tail)
  ELSE R(buf, tail)

parse_stylesheet(buf, chain) ==
  LET tail == IF chain # NULL THEN LastRule(buf.ctx, chain) ELSE NULL
      r == parse_stylesheet_loop(buf, tail, tail)
  IN R(r.buf, IF chain # NULL THEN chain ELSE r.v)

\* fz_parse_css_properties that parses one declaration and not the list.
fz_parse_css_properties_one(ctx, source) ==
  call("parse_declaration", next(css_lex_init(ctx, source, "<inline>")))

fz_parse_css_properties(ctx, source) ==
  call("parse_declaration_list", next(css_lex_init(ctx, source, "<inline>")))

fz_parse_css(ctx, chain, source, file) ==
  parse_stylesheet(next(css_lex_init(ctx, source, file)), chain)

\* The functions that are called through call.
call(f, a) ==
  CASE f = "css_lex_keyword" -> css_lex_keyword(a)
    [] f = "css_lex_number" -> css_lex_number(a)
    [] f = "css_lex_comment" -> css_lex_comment(a)
    [] f = "css_lex_color" -> css_lex_color(a)
    [] f = "css_lex_uri" -> css_lex_uri(a)
    [] f = "css_lex" -> css_lex(a)
    [] f = "parse_value" -> parse_value(a)
    [] f = "parse_value_list" -> parse_value_list(a)
    [] f = "parse_declaration" -> parse_declaration(a)
    [] f = "parse_declaration_list" -> parse_declaration_list(a)
    [] f = "parse_attrib_value" -> parse_attrib_value(a)
    [] f = "parse_condition_attrib" -> parse_condition_attrib(a)
    [] f = "parse_condition" -> parse_condition(a)
    [] f = "parse_condition_list" -> parse_condition_list(a)
    [] f = "parse_simple_selector" -> parse_simple_selector(a)
    [] f = "parse_adjacent_selector" -> parse_adjacent_selector(a)
    [] f = "parse_child_selector" -> parse_child_selector(a)
    [] f = "parse_descendant_selector" -> parse_descendant_selector(a)
    [] f = "parse_selector_list" -> parse_selector_list(a)
    [] f = "parse_rule" -> parse_rule(a)
    [] f = "parse_at_rule" -> parse_at_rule(a)
    [] f = "fz_parse_css_properties" -> fz_parse_css_properties(a.ctx, a.source)
    [] f = "fz_parse_css" -> fz_parse_css(a.ctx, a.chain, a.source, a.file)

\* -------------------------------------------------------- reading the AST

\* The bytes of the string at address p (<<>> for a NULL pointer; see Str
\* users for the difference between absent and empty).
Str(heap, p) == IF p = NULL THEN <<>> ELSE heap[p].bytes

RECURSIVE ValueChain(_, _)
\* The value chain from v on: each value's type, data and args.
ValueChain(heap, v) ==
  IF v = NULL THEN <<>>
  ELSE <<[type |-> heap[v].type, data |-> Str(heap, heap[v].data),
          args |-> ValueChain(heap, heap[v].args)]>> \o ValueChain(heap, heap[v].next)

RECURSIVE PropertyChain(_, _)
PropertyChain(heap, p) ==
  IF p = NULL THEN <<>>
  ELSE <<[name |-> Str(heap, heap[p].name), value |-> ValueChain(heap, heap[p].value),
          spec |-> heap[p].spec]>> \o PropertyChain(heap, heap[p].next)

RECURSIVE ConditionChain(_, _)
ConditionChain(heap, c) ==
  IF c = NULL THEN <<>>
  ELSE <<[type |-> heap[c].type, key |-> Str(heap, heap[c].key),
          hasval |-> heap[c].val # NULL, val |-> Str(heap, heap[c].val)]>>
       \o ConditionChain(heap, heap[c].next)

RECURSIVE SelectorChain(_, _)
SelectorChain(heap, s) ==
  IF s = NULL THEN <<>>
  ELSE <<[hasname |-> heap[s].name # NULL, name |-> Str(heap, heap[s].name),
          combine |-> heap[s].combine, cond |-> ConditionChain(heap, heap[s].cond),
          left |-> SelectorChain(heap, heap[s].left),
          right |-> SelectorChain(heap, heap[s].right)]>>
       \o SelectorChain(heap, heap[s].next)

RECURSIVE RuleAddrs(_, _)
\* The addresses of the rules of the chain from r on, in order.
RuleAddrs(heap, r) ==
  IF r = NULL THEN <<>> ELSE <<r>> \o RuleAddrs(heap, heap[r].next)

\* The rule at address r, without its link.
Rule(heap, r) ==
  [selector |-> SelectorChain(heap, heap[r].selector),
   declaration |-> PropertyChain(heap, heap[r].declaration)]

\* The rule chain from r on.
RuleChain(heap, r) ==
  LET a == RuleAddrs(heap, r) IN [i \in 1..Len(a) |-> Rule(heap, a[i])]

\* ------------------------------------------------------------------ inputs

MaxPieces == 3
MaxPayload == 2
MaxName == 2
MaxSkip == 3
MaxBehind == 1
MaxComment == 4
MaxHex == 6
Margin == 2

RECURSIVE Words(_, _)
\* The texts made of at most n pieces of A.
Words(A, n) ==
  IF n = 0 THEN {<<>>}
  ELSE LET W == Words(A, n - 1) IN W \cup {w \o a : w \in W, a \in A}

\* Stylesheets put together from rules, parts of rules and at-rules.
SheetPieces ==
  {Bytes(<<"q", "{", "}">>), Bytes(<<"*", "{", "b", ":", "x", "}">>), Bytes(<<"p">>),
   Bytes(<<"{">>), Bytes(<<"}">>), Bytes(<<"b", ":", "x">>), Bytes(<<";">>),
   Bytes(<<"@", "m">>)}

PieceSheets == Words(SheetPieces, MaxPieces)

UrlOpen == Bytes(<<"p", "{", "b", ":", "u", "r", "l", "(">>)
UrlClose == Bytes(<<")", "}">>)

\* p{b:url(<payload>)}
UrlSheets ==
  {UrlOpen \o w \o UrlClose :
     w \in Words({Bytes(<<"x">>), Bytes(<<" ">>), Bytes(<<"(">>)}, MaxPayload)}

\* Selectors with an id: #<name> and p#<name>, in a rule with no declaration.
IdNames == Words({Bytes(<<"a">>), Bytes(<<"m">>)}, MaxName) \ {<<>>}

IdSheet(pre, n) == pre \o Bytes(<<"#">>) \o n \o Bytes(<<"{", "}">>)

IdSheets == {IdSheet(pre, n) : pre \in {<<>>, Bytes(<<"p">>)}, n \in IdNames}

\* An at-rule: its keyword and what follows it.
SkipPieces ==
  {Bytes(<<";">>), Bytes(<<"{">>), Bytes(<<"}">>), Bytes(<<"x">>), Bytes(<<"q", "{", "}">>)}

AtKeyword == Bytes(<<"@", "m">>)

AtSheets == {AtKeyword \o w : w \in Words(SkipPieces, MaxSkip)}

\* p { background: url(foo.png) }
UrlExample ==
  Bytes(<<"p", " ", "{", " ", "b", "a", "c", "k", "g", "r", "o", "u", "n", "d", ":", " ",
          "u", "r", "l", "(", "f", "o", "o", ".", "p", "n", "g", ")", " ", "}">>)

\* @media print { p { x: y } } q { z: w }
MediaExample ==
  Bytes(<<"@", "m", "e", "d", "i", "a", " ", "p", "r", "i", "n", "t", " ", "{", " ",
          "p", " ", "{", " ", "x", ":", " ", "y", " ", "}", " ", "}", " ",
          "q", " ", "{", " ", "z", ":", " ", "w", " ", "}">>)

Sheets ==
  PieceSheets \cup UrlSheets \cup IdSheets \cup AtSheets \cup {UrlExample, MediaExample}

\* The stylesheets loaded before the call under study.
DefaultSheets ==
  {<<>>, Bytes(<<"@", "m", ";">>), Bytes(<<"q", "{", "}">>),
   Bytes(<<"q", "{", "}", "*", "{", "b", ":", "x", "}">>)}

\* Inline style attributes.
InlinePieces ==
  {Bytes(<<"b", ":", "x">>), Bytes(<<";">>), Bytes(<<"}">>), Bytes(<<")">>),
   Bytes(<<" ">>), Bytes(<<"!", "i">>), Bytes(<<"c", ":", "f", "(", "1", ")">>),
   Bytes(<<"/", "*">>), Bytes(<<"*">>)}

Inlines == Words(InlinePieces, MaxPieces)

\* What the memory behind the terminating NUL may hold, as far as it is mapped.
Behind == Words({<<0>>, Bytes(<<"*">>), Bytes(<<"/">>), Bytes(<<"x">>)}, MaxBehind)

\* The memory at the source pointer: the string, its NUL, and what lies behind.
Memory(src, g) == src \o <<0>> \o g

\* The string the memory starts with.
Source(mem) == CStr(mem)

\* The arguments of a call of fz_parse_css (of fz_parse_css_properties, which
\* takes the first two).
Args(ctx, chain, mem, file) == [ctx |-> ctx, chain |-> chain, source |-> mem, file |-> file]

\* The outcomes of the call of f on the source src, r being its outcome when
\* nothing is mapped behind the string: that one when the lexer stays inside
\* the string, and one per content of the memory behind it otherwise.
RunsBehind(r, f, ctx, chain, src, file) ==
  IF r.buf.err # SIGSEGV THEN {r}
  ELSE {call(f, Args(ctx, chain, Memory(src, g), file)) : g \in Behind}

Runs(f, ctx, chain, src, file) ==
  RunsBehind(call(f, Args(ctx, chain, Memory(src, <<>>), file)), f, ctx, chain, src, file)

\* --------------------------------------------------------- the state machine

vars == <<alloc, css, last, lexbuf, pc, tokens>>

\* No lexbuf: the lexbuf is on the stack of a parse call.
NoBuf == [err |-> "none"]

\* The caller has called nothing yet.
NoCall ==
  [op |-> "none", source |-> <<>>, chain |-> NULL, live |-> 0, err |-> NoErr,
   line |-> 0, ret |-> NULL]

\* The caller has loaded its default stylesheet into the css.
Init ==
  /\ \E d \in DefaultSheets :
       LET r == call("fz_parse_css", Args(<<>>, NULL, Memory(d, <<>>), "default"))
       IN alloc = r.buf.ctx /\ css = r.v
  /\ last = NoCall
  /\ lexbuf = NoBuf
  /\ pc = "caller"
  /\ tokens = <<>>

\* What a call leaves in last: the call, the chain handed to it, the number of
\* objects allocated before it, the error thrown (with its line) or the value
\* returned.
Outcome(op, src, chain, live, r) ==
  [op |-> op, source |-> src, chain |-> chain, live |-> live, err |-> r.buf.err,
   line |-> r.buf.errline, ret |-> IF r.buf.err = NoErr THEN r.v ELSE NULL]

\* css = fz_parse_css(ctx, css, source, file); a throw leaves css as it was.
\* The behaviours end with the caller's first call.
ParseCss ==
  /\ last.op = "none"
  /\ \E src \in Sheets :
       \E r \in Runs("fz_parse_css", alloc, css, src, "file") :
         /\ alloc' = r.buf.ctx
         /\ css' = IF r.buf.err = NoErr THEN r.v ELSE css
         /\ last' = Outcome("parse_css", src, css, Len(alloc), r)
  /\ UNCHANGED <<lexbuf, pc, tokens>>

\* props = fz_parse_css_properties(ctx, source)
ParseCssProperties ==
  /\ last.op = "none"
  /\ \E src \in Inlines :
       \E r \in Runs("fz_parse_css_properties", alloc, NULL, src, "<inline>") :
         /\ alloc' = r.buf.ctx
         /\ last' = Outcome("parse_css_properties", src, NULL, Len(alloc), r)
  /\ UNCHANGED <<css, lexbuf, pc, tokens>>

Next == ParseCss \/ ParseCssProperties

Spec == Init /\ [][Next]_vars

\* ------------------------------------------- the parse and drop of an AST

MaxSel == 4
MaxVal == 4
MaxLine == 3

\* Selectors put together from a name, a condition and a name behind each
\* combinator and behind the comma, in a rule with no declaration.
SelPieces ==
  {Bytes(<<"a">>), Bytes(<<" ", "a">>), Bytes(<<">", "a">>), Bytes(<<"+", "a">>),
   Bytes(<<".", "k">>), Bytes(<<",", "a">>)}

SelSheets == {w \o Bytes(<<"{", "}">>) : w \in Words(SelPieces, MaxSel)}

\* Value lists put together from keywords, white space, the parentheses of a call,
\* the empty string and the empty url, in the one declaration of a rule.
ValPieces ==
  {Bytes(<<"x">>), Bytes(<<" ">>), Bytes(<<"(">>), Bytes(<<")">>), Bytes(<<",">>),
   <<DQUOTE, DQUOTE>>, Bytes(<<"u", "r", "l", "(", ")">>)}

ValSheets ==
  {Bytes(<<"p", "{", "b", ":">>) \o w \o Bytes(<<"}">>) : w \in Words(ValPieces, MaxVal)}

\* a.k>b c[x=y]{b:f(x,g(y))}
TreeExample ==
  Bytes(<<"a", ".", "k", ">", "b", " ", "c", "[", "x", "=", "y", "]", "{",
          "b", ":", "f", "(", "x", ",", "g", "(", "y", ")", ")", "}">>)

\* a[x=""]{}, a[x|="s"][y~=z]:h{}
AttrExamples ==
  {Bytes(<<"a", "[", "x", "=">>) \o <<DQUOTE, DQUOTE>> \o Bytes(<<"]", "{", "}">>),
   Bytes(<<"a", "[", "x", "|", "=">>) \o <<DQUOTE>> \o Bytes(<<"s">>) \o <<DQUOTE>>
     \o Bytes(<<"]", "[", "y", "~", "=", "z", "]", ":", "h", "{", "}">>)}

\* Rules, line feeds and blanks, and the semicolon no rule can start with.
LinePieces == {Bytes(<<"q", "{", "}">>), <<LF>>, <<SPACE>>, <<SEMICOLON>>}

LineSheets == Words(LinePieces, MaxLine)

\* Names with backslashes.
EscapeNames == Words({Bytes(<<"a">>), <<BACKSLASH>>}, MaxName) \ {<<>>}

\* n{n:n}: the name as selector, as property name and as value.
EscapeSheet(n) == n \o <<LBRACE>> \o n \o <<COLON>> \o n \o <<RBRACE>>

EscapeSheets == {EscapeSheet(n) : n \in EscapeNames}

TreeSheets ==
  SelSheets \cup ValSheets \cup LineSheets \cup EscapeSheets \cup AttrExamples
    \cup {TreeExample}

\* The stylesheets loaded before the call under study.
TreeDefaults == {<<>>, Bytes(<<"q", "{", "}">>)}

InitTree ==
  /\ \E d \in TreeDefaults :
       LET r == call("fz_parse_css", Args(<<>>, NULL, Memory(d, <<>>), "default"))
       IN alloc = r.buf.ctx /\ css = r.v
  /\ last = NoCall
  /\ lexbuf = NoBuf
  /\ pc = "caller"
  /\ tokens = <<>>

\* css = fz_parse_css(ctx, css, source, file); a throw leaves css as it was.
ParseTree ==
  /\ pc = "caller" /\ last.op = "none"
  /\ \E src \in TreeSheets :
       \E r \in Runs("fz_parse_css", alloc, css, src, "file") :
         /\ alloc' = r.buf.ctx
         /\ css' = IF r.buf.err = NoErr THEN r.v ELSE css
         /\ last' = Outcome("parse_css", src, css, Len(alloc), r)
  /\ UNCHANGED <<lexbuf, pc, tokens>>

\* fz_drop_css(ctx, css); css = NULL;
DropCss ==
  /\ pc = "caller"
  /\ alloc' = fz_drop_css(Heap(alloc), css).ctx
  /\ css' = NULL
  /\ pc' = IF fz_drop_css(Heap(alloc), css).err = NoErr THEN "dropped"
           ELSE fz_drop_css(Heap(alloc), css).err
  /\ UNCHANGED <<last, lexbuf, tokens>>

NextTree == ParseTree \/ DropCss

SpecTree == InitTree /\ [][NextTree]_vars

\* ------------------------------------------------- the claims about a parse

\* The rules the caller's call has put on the chain: those it allocated.
NewRuleAddrs == SelectSeq(RuleAddrs(alloc, css), LAMBDA r : r > last.live)

NewRules == [i \in 1..Len(NewRuleAddrs) |-> Rule(alloc, NewRuleAddrs[i])]

\* parse_css(empty, src), and the rules it returns.
FreshParse(src) == fz_parse_css(<<>>, NULL, Memory(src, <<>>), "file")

FreshRules(src) == RuleChain(FreshParse(src).buf.ctx, FreshParse(src).v)

\* The caller's call was parse_css and has returned.
ParsedCss == last.op = "parse_css" /\ last.err = NoErr

\* The caller's call has thrown a syntax error.
Thrown == last.op # "none" /\ last.err \notin {NoErr, SIGSEGV}

\* C1: p{b:url(<payload>)}, for every payload without a ')', and the example
\* p { background: url(foo.png) }, parse into one rule with one declaration
\* whose value chain is a single value of type CSS_URI.
C1_UrlPayloadDiscarded ==
  (last.op = "parse_css" /\ last.source \in UrlSheets \cup {UrlExample}) =>
    /\ last.err = NoErr
    /\ Len(NewRules) = 1
    /\ Len(NewRules[1].declaration) = 1
    /\ Len(NewRules[1].declaration[1].value) = 1
    /\ NewRules[1].declaration[1].value[1].type = CSS_URI

\* C2: a selector #<name> or p#<name> parses and has the one condition of
\* type '#', key "id" and val <name>, for every keyword <name>.
C2_IdCondition ==
  \A pre \in {<<>>, Bytes(<<"p">>)}, n \in IdNames :
    (last.op = "parse_css" /\ last.source = IdSheet(pre, n)) =>
      /\ last.err = NoErr
      /\ Len(NewRules) = 1
      /\ Len(NewRules[1].selector) = 1
      /\ NewRules[1].selector[1].cond =
           <<[type |-> HASH, key |-> Bytes(<<"i", "d">>), hasval |-> TRUE, val |-> n]>>

\* C3: a parse_css that throws a syntax error leaves the caller's chain as it
\* was: the same rules in the same order, nothing linked behind its tail.
C3_NoPartialOutput ==
  [][(last'.op = "parse_css" /\ last'.err \notin {NoErr, SIGSEGV}) =>
       RuleChain(alloc', css') = RuleChain(alloc, css)]_vars

\* C4: when a parse throws a syntax error, nothing it allocated is live any
\* more: the allocation context holds what it held before the call.
C4_FailedParseFreed == Thrown => Len(alloc) = last.live

\* "*{" + s + "}"
Wrapped(s) == Bytes(<<"*", "{">>) \o s \o Bytes(<<"}">>)

\* parse_css(empty, "*{" + s + "}") returns exactly one rule.
WrappedOneRule(s) ==
  FreshParse(Wrapped(s)).buf.err = NoErr /\ Len(FreshRules(Wrapped(s))) = 1

\* The caller's call was parse_css_properties and has returned.
ParsedProperties == last.op = "parse_css_properties" /\ last.err = NoErr

\* C5, as claimed: whenever parse_css_properties(s) returns, parse_css(empty,
\* "*{" + s + "}") returns exactly one rule, whose declarations are those
\* parse_css_properties(s) has returned.
C5_InlineEquivalence ==
  ParsedProperties =>
    /\ WrappedOneRule(last.source)
    /\ FreshRules(Wrapped(last.source))[1].declaration = PropertyChain(alloc, last.ret)

\* C5, amended: whenever parse_css(empty, "*{" + s + "}") returns exactly one
\* rule, parse_css_properties(s) returns too, and returns the declarations of
\* that rule.
C5_InlineOfWrapped ==
  (last.op = "parse_css_properties" /\ WrappedOneRule(last.source)) =>
    /\ last.err = NoErr
    /\ PropertyChain(alloc, last.ret) = FreshRules(Wrapped(last.source))[1].declaration

\* parse_css_properties has returned two declarations or more, of a source
\* that parse_css accepts between "*{" and "}".
C5_Witness ==
  /\ ParsedProperties
  /\ WrappedOneRule(last.source)
  /\ Len(PropertyChain(alloc, last.ret)) >= 2

\* C6: parse_css(parse_css(empty, A), B) returns the rules of A followed by
\* the rules of B; the head returned is the head handed in when there is one,
\* and the first rule of B otherwise.
C6_ChainConcatenation ==
  [][(last'.op = "parse_css" /\ last'.err = NoErr) =>
       /\ RuleChain(alloc', css') = RuleChain(alloc, css) \o FreshRules(last'.source)
       /\ css # NULL => css' = css
       /\ css = NULL => css' = last'.ret]_vars

\* parse_css has put two rules or more behind a chain of two rules.
C6_Witness ==
  /\ ParsedCss
  /\ last.chain # NULL
  /\ Len(NewRules) >= 2
  /\ Len(RuleChain(alloc, css)) >= Len(NewRules) + 2

RECURSIVE SkipBlock(_, _)
\* What follows the '}' that closes the block entered depth braces deep
\* (nothing, when the text ends inside the block).
SkipBlock(w, depth) ==
  IF depth = 0 \/ w = <<>> THEN w
  ELSE IF Head(w) = LBRACE THEN SkipBlock(Tail(w), depth + 1)
  ELSE IF Head(w) = RBRACE THEN SkipBlock(Tail(w), depth - 1)
  ELSE SkipBlock(Tail(w), depth)

RECURSIVE SkipAt(_)
\* What follows an at-rule, w being the text behind its '@': what follows its
\* first ';', or the block that its first '{' opens.
SkipAt(w) ==
  IF w = <<>> THEN w
  ELSE IF Head(w) = SEMICOLON THEN Tail(w)
  ELSE IF Head(w) = LBRACE THEN SkipBlock(Tail(w), 1)
  ELSE SkipAt(Tail(w))

\* C7: a stylesheet that starts with an at-rule parses as what follows that
\* at-rule does: the same error or the same rules, none from the at-rule, and
\* no error when the stylesheet ends inside the at-rule.
C7_AtRuleSkipped ==
  (last.op = "parse_css" /\ last.source \in AtSheets \cup {MediaExample}) =>
    /\ last.err = FreshParse(SkipAt(Tail(last.source))).buf.err
    /\ last.err = NoErr => NewRules = FreshRules(SkipAt(Tail(last.source)))

\* parse_css has skipped an at-rule whose block has a block inside, and has
\* parsed the rule behind it.
C7_Witness ==
  /\ ParsedCss
  /\ last.source = MediaExample
  /\ Len(NewRules) = 1
  /\ NewRules[1].selector[1].name = Bytes(<<"q">>)

\* ---------------------------------------------------------- a lexer run

\* A comment opened at the start of the text or behind a keyword, and what
\* follows its opening.
CommentSources ==
  {pre \o Bytes(<<"/", "*">>) \o body :
     pre \in {<<>>, Bytes(<<"p">>)},
     body \in Words({Bytes(<<"*">>), Bytes(<<"/">>), Bytes(<<"x">>)}, MaxComment)}

\* A '#', hex digits, and what follows them.
ColorSources ==
  {Bytes(<<"#">>) \o w \o t :
     w \in Words({Bytes(<<"1">>), Bytes(<<"a">>), Bytes(<<"F">>)}, MaxHex),
     t \in {<<>>, Bytes(<<" ">>), Bytes(<<"g">>)}}

MaxString == 3

\* A double quote and what follows it: letters, backslashes and double quotes.
StringSources ==
  {<<DQUOTE>> \o body :
     body \in Words({Bytes(<<"x">>), <<BACKSLASH>>, <<DQUOTE>>}, MaxString)}

LexSources == CommentSources \cup ColorSources \cup StringSources

\* The token that next has put in the lookahead, with the scratch string.
Token(buf) == [type |-> buf.lookahead, string |-> CStr(buf.string)]

\* Where a lexer run is after a call of next.
AfterNext(buf) ==
  IF buf.err # NoErr THEN "error" ELSE IF buf.lookahead = EOF THEN "eof" ELSE "next"

RECURSIVE LexAll(_)
\* The lexbuf after next has been called until EOF or an error.
LexAll(buf) == IF AfterNext(next(buf)) = "next" THEN LexAll(next(buf)) ELSE next(buf)

RECURSIVE LexTokens(_, _)
\* The tokens that next returns until EOF or an error, behind those of toks.
LexTokens(buf, toks) ==
  IF AfterNext(next(buf)) = "error" THEN R(next(buf), toks)
  ELSE IF AfterNext(next(buf)) = "eof" THEN R(next(buf), Append(toks, Token(next(buf))))
  ELSE LexTokens(next(buf), Append(toks, Token(next(buf))))

\* The memories a lexer run may find at the source src: with nothing mapped
\* behind the string when the run stays inside it, with each content
\* otherwise.
Memories(src) ==
  IF LexAll(css_lex_init(<<>>, Memory(src, <<>>), "file")).err # SIGSEGV
  THEN {Memory(src, <<>>)}
  ELSE {Memory(src, g) : g \in Behind}

\* css_lex_init(ctx, &buf, source, file), next to be called.
InitLex ==
  /\ alloc = <<>>
  /\ css = NULL
  /\ last = NoCall
  /\ \E src \in LexSources :
       \E mem \in Memories(src) : lexbuf = css_lex_init(<<>>, mem, "file")
  /\ pc = "next"
  /\ tokens = <<>>

\* next(&buf)
LexNext ==
  /\ pc = "next"
  /\ lexbuf' = next(lexbuf)
  /\ pc' = AfterNext(lexbuf')
  /\ tokens' = IF lexbuf'.err = NoErr THEN Append(tokens, Token(lexbuf')) ELSE tokens
  /\ UNCHANGED <<alloc, css, last>>

NextLex == LexNext

SpecLex == InitLex /\ [][NextLex]_vars

\* ------------------------------------------------- the lexing of a keyword

\* Keywords as long as the scratch string, a few bytes less and a few more.
KeywordLengths == (nelem_string - 1 - Margin)..(nelem_string - 1 + Margin)

KeywordSources == {[i \in 1..n |-> LOWER_a] : n \in KeywordLengths}

\* css_lex_init(ctx, &buf, source, file), and next has called css_lex.
InitKeyword ==
  /\ alloc = <<>>
  /\ css = NULL
  /\ last = NoCall
  /\ \E src \in KeywordSources : lexbuf = css_lex_init(<<>>, Memory(src, <<>>), "file")
  /\ pc = "css_lex"
  /\ tokens = <<>>

\* css_lex up to its call of css_lex_keyword, the text starting a keyword.
KeywordStart ==
  /\ pc = "css_lex"
  /\ isnmstart(lexbuf.c) /\ lexbuf.c # LOWER_u
  /\ lexbuf' = css_lex_nmstart([lexbuf EXCEPT !.string_len = 0])
  /\ pc' = IF lexbuf'.err # NoErr THEN "error" ELSE "css_lex_keyword"
  /\ UNCHANGED <<alloc, css, last, tokens>>

\* One iteration of the loop of css_lex_keyword.
KeywordChar ==
  /\ pc = "css_lex_keyword"
  /\ isnmchar(lexbuf.c)
  /\ lexbuf' = css_lex_keyword_step(lexbuf)
  /\ pc' = IF lexbuf'.err # NoErr THEN "error" ELSE "css_lex_keyword"
  /\ UNCHANGED <<alloc, css, last, tokens>>

\* css_push_char(buf, 0); return CSS_KEYWORD; and next stores the lookahead.
KeywordEnd ==
  /\ pc = "css_lex_keyword"
  /\ ~isnmchar(lexbuf.c)
  /\ lexbuf' = IF css_push_char(lexbuf, 0).err # NoErr THEN css_push_char(lexbuf, 0)
                ELSE [css_push_char(lexbuf, 0) EXCEPT !.lookahead = CSS_KEYWORD]
  /\ pc' = IF lexbuf'.err # NoErr THEN "error" ELSE "returned"
  /\ tokens' = IF lexbuf'.err = NoErr THEN Append(tokens, Token(lexbuf')) ELSE tokens
  /\ UNCHANGED <<alloc, css, last>>

NextKeyword == KeywordStart \/ KeywordChar \/ KeywordEnd

SpecKeyword == InitKeyword /\ [][NextKeyword]_vars

\* --------------------------------------------- the claims about a lexer run

\* The text the lexer run is about, and whether the run is over.
LexSource == Source(lexbuf.src)

LexOver == pc \in {"eof", "error"}

\* The tokens of the text w, and the error that ends them.
TokensOf(w) ==
  [tokens |-> LexTokens(css_lex_init(<<>>, Memory(w, <<>>), "file"), <<>>).v,
   err |-> LexTokens(css_lex_init(<<>>, Memory(w, <<>>), "file"), <<>>).buf.err]

RECURSIVE CloseAt(_, _)
\* The index behind the first "*/" of w from index i on, 0 when there is none.
CloseAt(w, i) ==
  IF i + 1 > Len(w) THEN 0
  ELSE IF w[i] = STAR /\ w[i + 1] = SLASH THEN i + 2
  ELSE CloseAt(w, i + 1)

RECURSIVE Unterminated(_)
\* Some "/*" of w has no "*/" behind it.
Unterminated(w) ==
  IF Len(w) < 2 THEN FALSE
  ELSE IF w[1] = SLASH /\ w[2] = STAR
  THEN CloseAt(w, 3) = 0 \/ Unterminated(SubSeq(w, CloseAt(w, 3), Len(w)))
  ELSE Unterminated(Tail(w))

RECURSIVE Uncommented(_)
\* w with a space for each of its comments, each ended by its first "*/".
Uncommented(w) ==
  IF Len(w) < 2 THEN w
  ELSE IF w[1] = SLASH /\ w[2] = STAR
  THEN <<SPACE>> \o Uncommented(SubSeq(w, CloseAt(w, 3), Len(w)))
  ELSE <<Head(w)>> \o Uncommented(Tail(w))

\* C9: a text with a "/*" that no "*/" follows ends the run with the error
\* "unterminated comment", whatever the comment ends with; and a text whose
\* comments are terminated gives the tokens it gives without its comments,
\* each comment ending at its first "*/".
C9_CommentsConsumed ==
  (LexOver /\ LexSource \in CommentSources) =>
    IF Unterminated(LexSource)
    THEN lexbuf.err = "unterminated comment"
    ELSE /\ tokens = TokensOf(Uncommented(LexSource)).tokens
         /\ lexbuf.err = TokensOf(Uncommented(LexSource)).err

\* The sixteen hex digits, in lower and in upper case.
LowerHex ==
  Bytes(<<"0", "1", "2", "3", "4", "5", "6", "7", "8", "9", "a", "b", "c", "d", "e", "f">>)

UpperHex ==
  Bytes(<<"0", "1", "2", "3", "4", "5", "6", "7", "8", "9", "A", "B", "C", "D", "E", "F">>)

IsHexDigit(c) == \E i \in 1..16 : LowerHex[i] = c \/ UpperHex[i] = c

HexValue(c) == (CHOOSE i \in 1..16 : LowerHex[i] = c \/ UpperHex[i] = c) - 1

RECURSIVE HexRun(_)
\* The values of the hex digits that w starts with.
HexRun(w) ==
  IF w = <<>> \/ ~IsHexDigit(Head(w)) THEN <<>> ELSE <<HexValue(Head(w))>> \o HexRun(Tail(w))

\* The six lowercase hex digits of the integer n.
SixHex(n) == [i \in 1..6 |-> LowerHex[((n \div (16 ^ (6 - i))) % 16) + 1]]

\* The integer of a color of three or of six digits: its fields do not
\* overlap, so that their sum is their bitwise or.
ColorOf(d) ==
  IF Len(d) = 3 THEN d[1] * (2 ^ 20) + d[2] * (2 ^ 12) + d[3] * (2 ^ 4)
  ELSE d[1] * (2 ^ 20) + d[2] * (2 ^ 16) + d[3] * (2 ^ 12) + d[4] * (2 ^ 8) +
       d[5] * (2 ^ 4) + d[6]

\* The hex digits behind the '#' that the text of the run starts with.
ColorDigits == HexRun(Tail(LexSource))

\* C10: '#' with exactly three or six hex digits is a CSS_COLOR token whose
\* string is the six lowercase hex digits of (a<<20)|(b<<12)|(c<<4), or of
\* (a<<20)|(b<<16)|(c<<12)|(d<<8)|(e<<4)|f; with fewer than three, with four or
\* with five hex digits it is the error "invalid color".
C10_ColorCanonicalForm ==
  (LexSource \in ColorSources /\ (tokens # <<>> \/ pc = "error")) =>
    IF Len(ColorDigits) \in {3, 6}
    THEN /\ tokens # <<>>
         /\ tokens[1] = [type |-> CSS_COLOR, string |-> SixHex(ColorOf(ColorDigits))]
    ELSE Len(ColorDigits) < 6 => (tokens = <<>> /\ lexbuf.err = "invalid color")

\* The lexer has returned the color of #1aF.
C10_Witness ==
  /\ LexSource = Bytes(<<"#", "1", "a", "F">>)
  /\ tokens = <<[type |-> CSS_COLOR, string |-> Bytes(<<"1", "0", "a", "0", "f", "0">>)]>>

\* C8, as claimed: a keyword of 1023 bytes is lexed as one CSS_KEYWORD with all
\* its bytes, and a keyword of 1024 bytes is the error "token too long".
C8_KeywordBoundary ==
  /\ (pc \in {"returned", "error"} /\ Len(LexSource) = nelem_string - 1) =>
       (pc = "returned" /\ tokens = <<[type |-> CSS_KEYWORD, string |-> LexSource]>>)
  /\ (pc \in {"returned", "error"} /\ Len(LexSource) = nelem_string) =>
       (pc = "error" /\ lexbuf.err = "token too long")

\* C8, amended: a keyword of 1022 bytes (or less) is lexed as one CSS_KEYWORD
\* with all its bytes, and a keyword of 1023 bytes (or more) is the error
\* "token too long".
C8_KeywordBoundaryBelow ==
  /\ pc = "returned" =>
       /\ Len(LexSource) <= nelem_string - 2
       /\ tokens = <<[type |-> CSS_KEYWORD, string |-> LexSource]>>
  /\ pc = "error" =>
       /\ Len(LexSource) >= nelem_string - 1
       /\ lexbuf.err = "token too long"

\* The lexer has returned a keyword of 1022 bytes.
C8_Witness == pc = "returned" /\ Len(LexSource) = nelem_string - 2

\* ------------------------------------------------- the claims about an AST

\* The css has been dropped, after calls of fz_parse_css that all succeeded.
Dropped == pc \in {"dropped", "double free", "use after free"} /\ last.err = NoErr

\* C11: fz_drop_css on the head that successful parses returned frees every
\* object allocated, each once: no object stays allocated, none is freed
\* twice, none is read after it was freed.
C11_DropFreesAll ==
  Dropped => (pc = "dropped" /\ \A p \in 1..Len(alloc) : alloc[p] = Freed)

\* The rules of two calls, with combinators, conditions and nested calls, have
\* been dropped.
C11_Witness ==
  Dropped /\ last.op = "parse_css" /\ last.source = TreeExample /\ last.chain # NULL

\* The caller's last call was a fz_parse_css that returned.
ParsedTree == pc = "caller" /\ last.op = "parse_css" /\ last.err = NoErr

\* The string at p is there and not empty.
Nonempty(p) == p # NULL /\ alloc[p].bytes # <<>>

\* C12, as claimed: in the AST of a successful parse every string is nonempty.
C12_StringsNonempty ==
  ParsedTree => \A p \in 1..Len(alloc) : alloc[p].t = "str" => alloc[p].bytes # <<>>

\* C12, amended: in the AST of a successful parse a selector's name is absent
\* or nonempty, a condition's key and a property's name are nonempty, a
\* condition's val is absent or nonempty unless the source has a quoted string,
\* and a value's data is nonempty unless the value is a string or a url.
C12_StringsNonemptyButQuoted ==
  ParsedTree =>
    \A p \in 1..Len(alloc) :
      /\ alloc[p].t = "selector" => (alloc[p].name = NULL \/ Nonempty(alloc[p].name))
      /\ alloc[p].t = "property" => Nonempty(alloc[p].name)
      /\ alloc[p].t = "condition" =>
           /\ Nonempty(alloc[p].key)
           /\ \/ alloc[p].val = NULL
              \/ Nonempty(alloc[p].val)
              \/ \E i \in 1..Len(last.source) : last.source[i] \in {DQUOTE, SQUOTE}
      /\ alloc[p].t = "value" =>
           /\ alloc[p].data # NULL
           /\ Nonempty(alloc[p].data) \/ alloc[p].type \in {CSS_STRING, CSS_URI}

\* A parse has returned a value that is a string with no byte, and one a
\* condition whose val has no byte.
C12_Witness ==
  /\ ParsedTree
  /\ \E p \in 1..Len(alloc) :
       \/ alloc[p].t = "value" /\ alloc[p].type = CSS_STRING /\ ~Nonempty(alloc[p].data)
       \/ alloc[p].t = "condition" /\ alloc[p].val # NULL /\ ~Nonempty(alloc[p].val)

\* The selector nodes of the heap.
Selectors == {p \in 1..Len(alloc) : alloc[p].t = "selector"}

\* The selector at p is a leaf: no combinator, no child.
IsLeaf(p) == alloc[p].combine = 0 /\ alloc[p].left = NULL /\ alloc[p].right = NULL

\* The selector at p is a combinator node: two children, no name, no condition.
IsCombinator(p) ==
  /\ alloc[p].combine \in {SPACE, GREATER, PLUS}
  /\ alloc[p].left # NULL /\ alloc[p].right # NULL
  /\ alloc[p].name = NULL /\ alloc[p].cond = NULL

\* C13 (I2): in the AST of a successful parse every selector node is a
\* combinator node with both children and no name or condition, or a leaf with
\* no child.
C13_SelectorShape ==
  ParsedTree => \A p \in Selectors : IsCombinator(p) \/ IsLeaf(p)

\* A parse has returned a descendant selector whose left side is a child
\* selector of a leaf with a condition.
C13_Witness ==
  /\ ParsedTree
  /\ \E p \in Selectors :
       /\ IsCombinator(p) /\ alloc[p].combine = SPACE
       /\ IsCombinator(alloc[p].left) /\ alloc[alloc[p].left].combine = GREATER
       /\ IsLeaf(alloc[alloc[p].left].left) /\ alloc[alloc[alloc[p].left].left].cond # NULL

\* The combinator of the selector at p, 0 for a leaf.
Combine(p) == alloc[p].combine

\* C14: in the AST of a successful parse the left child of a '+' is a leaf,
\* the left child of a '>' a leaf or a '+', the left child of a ' ' a leaf, a
\* '+' or a '>'; the right child of a '+' is a leaf or a '+', the right child
\* of a '>' is no ' '.
C14_SelectorPrecedence ==
  ParsedTree =>
    \A p \in Selectors :
      /\ Combine(p) = PLUS =>
           Combine(alloc[p].left) = 0 /\ Combine(alloc[p].right) \in {0, PLUS}
      /\ Combine(p) = GREATER =>
           Combine(alloc[p].left) \in {0, PLUS} /\ Combine(alloc[p].right) # SPACE
      /\ Combine(p) = SPACE => Combine(alloc[p].left) \in {0, PLUS, GREATER}

\* A parse has returned s1 op s2 op s3 as (s1 op (s2 op s3)), for one op.
C14_Witness ==
  /\ ParsedTree
  /\ \E p \in Selectors :
       /\ Combine(p) = GREATER /\ Combine(alloc[p].left) = 0
       /\ Combine(alloc[p].right) = GREATER
       /\ Combine(alloc[alloc[p].right].left) = 0 /\ Combine(alloc[alloc[p].right].right) = 0

\* The index of the first c of w.
FirstAt(w, c) ==
  CHOOSE i \in 1..Len(w) : w[i] = c /\ \A j \in 1..(i - 1) : w[j] # c

\* The line of the byte at index i of w: 1 and the line feeds before it.
LineAt(w, i) == 1 + Cardinality({j \in 1..(i - 1) : w[j] = LF})

\* C15: a parse that fails on a token reports the line that token is on.  In a
\* text of rules, line feeds, blanks and semicolons the first semicolon is the
\* token that is rejected, with "expected selector".
C15_DiagnosticLine ==
  (Thrown /\ last.source \in LineSheets) =>
    /\ last.err = "expected selector"
    /\ last.line = LineAt(last.source, FirstAt(last.source, SEMICOLON))

\* C16: a CSS_URI token has no payload, so in the AST of a successful parse
\* the value built from it has no data: none left over from an earlier token.
C16_UriNoPayload ==
  ParsedTree =>
    \A p \in 1..Len(alloc) :
      (alloc[p].t = "value" /\ alloc[p].type = CSS_URI) =>
        (alloc[p].data = NULL \/ alloc[alloc[p].data].bytes = <<>>)

\* The values the caller's last call allocated that are calls, of type '('.
NewCalls ==
  {p \in (last.live + 1)..Len(alloc) : alloc[p].t = "value" /\ alloc[p].type = LPAREN}

\* The indices of w at which a keyword is immediately followed by '('.
CallsAt(w) ==
  {i \in 1..(Len(w) - 1) : <<w[i]>> = Bytes(<<"x">>) /\ w[i + 1] = LPAREN}

\* C17: a value of type '(' is built only for a keyword that is immediately
\* followed by '(': a successful parse of a value list builds as many of them
\* as the text has keywords with a '(' right behind.
C17_CallNeedsAdjacency ==
  (ParsedTree /\ last.source \in ValSheets) =>
    Cardinality(NewCalls) = Cardinality(CallsAt(last.source))

\* The rule n{n:n}.
EscapeRule(n) ==
  [selector |-> <<[hasname |-> TRUE, name |-> n, combine |-> 0, cond |-> <<>>,
                   left |-> <<>>, right |-> <<>>]>>,
   declaration |-> <<[name |-> n, spec |-> 0,
                      value |-> <<[type |-> CSS_KEYWORD, data |-> n, args |-> <<>>]>>]>>]

\* C18, as claimed: the parse of a selector, property name or value keyword
\* with a backslash ends in a fatal error.
C18_BackslashFatal ==
  (pc = "caller" /\ last.op = "parse_css" /\ last.source \in EscapeSheets /\
   \E i \in 1..Len(last.source) : last.source[i] = BACKSLASH) => Thrown

\* C18, amended: a backslash is a name character like a letter: n{n:n} parses,
\* for every name n of letters and backslashes, into the rule whose selector
\* name, property name and value keyword are n, backslashes included.
C18_BackslashInName ==
  \A n \in EscapeNames :
    (pc = "caller" /\ last.op = "parse_css" /\ last.source = EscapeSheet(n)) =>
      (last.err = NoErr /\ NewRules = <<EscapeRule(n)>>)

\* A rule whose names start with a backslash has been parsed.
C18_Witness ==
  /\ ParsedTree /\ last.source \in EscapeSheets /\ last.source[1] = BACKSLASH
  /\ Len(NewRules) = 1

\* C19: the lexer reads no byte behind the NUL that ends the source: the
\* cursor is at most one byte behind the NUL, the byte read last being the NUL.
C19_CursorBound ==
  lexbuf.err # SIGSEGV /\ lexbuf.s <= Len(LexSource) + 2

\* C20: a call of fz_parse_css or fz_parse_css_properties ends by returning or
\* by throwing a syntax error: never by the lexer running out of the memory the
\* source is in.
C20_ParseEnds ==
  last.op # "none" => last.err # SIGSEGV

=============================================================================
